---- MODULE Spec2Model ----
(***************************************************************************)
(* Calendar bot: a form-style discussion body is parsed into an event      *)
(* (calendar_bot/utils.py) and reconciled against a store made of one      *)
(* aggregate calendar file and one calendar file per event                 *)
(* (calendar_bot/update_calendar.py).                                      *)
(*                                                                         *)
(* Text is modelled line by line: a body is a sequence of lines, a field   *)
(* value is the sequence of the lines that "\n".join() glues together.     *)
(* Times are hours counted from 2024-11-28 00:00; an aware time is the     *)
(* pair of its UTC instant and its zone.                                   *)
(***************************************************************************)
EXTENDS Integers, Sequences, FiniteSets, TLC

VARIABLES
    aggregate,    \* data/adsv_events_public.ics: [exists, events]
    individual,   \* data/individual_events/<uid>.ics, per discussion number
    lastOp,       \* the last finished invocation: what it was given and returned
    loaded,       \* all_events as load_events_from_calendar_file returned it
    all_events,   \* all_events / filtered_events as the invocation left it
    body,         \* the body handed to make_event_from_github_discussion_body
    built,        \* what that call produced
    pc,           \* position of each concurrent invocation
    job,          \* arguments of each concurrent invocation
    local,        \* local variables of each concurrent invocation
    overlapped    \* some invocation took a step while another was under way

vars == <<aggregate, individual, lastOp, loaded, all_events, body, built,
          pc, job, local, overlapped>>

storeVars == <<aggregate, individual, lastOp, loaded, all_events>>
buildVars == <<body, built>>
concVars == <<pc, job, local, overlapped>>

(***************************************************************************)
(* Bounds                                                                  *)
(***************************************************************************)
\* discussion numbers are 1..NumDiscussions
NumDiscussions == 3

Discussions == 1..NumDiscussions

(***************************************************************************)
(* Lines of a body                                                         *)
(***************************************************************************)
\* line.startswith("### ") and line[4:].strip()
HeadingField ==
    [l \in {"### Event Name", "### Event Description", "### Start Time",
            "### End Time", "### Location", "### Notes"} |->
        CASE l = "### Event Name" -> "Event Name"
          [] l = "### Event Description" -> "Event Description"
          [] l = "### Start Time" -> "Start Time"
          [] l = "### End Time" -> "End Time"
          [] l = "### Location" -> "Location"
          [] l = "### Notes" -> "Notes"]

IsHeading(line) == line \in DOMAIN HeadingField

\* line.strip() is empty
IsBlank(line) == line \in {"", "  "}

\* line.startswith(fence marker): a TLA+ string cannot hold a backquote, so
\* three single quotes stand for the three backquotes of a fence line
IsFence(line) == line \in {"'''", "'''text"}

required_fields ==
    <<"Event Name", "Event Description", "Start Time", "End Time", "Location">>

timezone_ianacode == "Europe/Zurich"

\* UTC offset of Europe/Zurich on the (winter) days modelled, in hours
ZurichUtcOffset == 1

(***************************************************************************)
(* Field extraction: the loop of make_event_from_github_discussion_body    *)
(***************************************************************************)
NoField == ""

\* fields[current_field] = "\n".join(current_content).strip()
SaveField(fields, current_field, current_content) ==
    IF current_field # NoField
    THEN [f \in (DOMAIN fields) \cup {current_field} |->
            IF f = current_field THEN current_content ELSE fields[f]]
    ELSE fields

RECURSIVE ScanLines(_, _, _, _, _)
ScanLines(lines, i, fields, current_field, current_content) ==
    IF i > Len(lines)
    THEN SaveField(fields, current_field, current_content)
    ELSE IF IsHeading(lines[i])
    THEN ScanLines(lines, i + 1,
                   SaveField(fields, current_field, current_content),
                   HeadingField[lines[i]], <<>>)
    ELSE IF current_field # NoField /\ ~IsBlank(lines[i])
    THEN ScanLines(lines, i + 1, fields, current_field,
                   Append(current_content, lines[i]))
    ELSE ScanLines(lines, i + 1, fields, current_field, current_content)

ParseFields(b) == ScanLines(b, 1, <<>>, NoField, <<>>)

\* first required field that is missing or empty, 0 if none
RECURSIVE FirstMissing(_, _)
FirstMissing(fields, k) ==
    IF k > Len(required_fields) THEN 0
    ELSE IF required_fields[k] \notin DOMAIN fields
            \/ fields[required_fields[k]] = <<>>
    THEN k
    ELSE FirstMissing(fields, k + 1)

(***************************************************************************)
(* Field parsers                                                           *)
(***************************************************************************)
Fail(msg) == [ok |-> FALSE, error |-> "EventFormParserError", message |-> msg]
Ok(v) == [ok |-> TRUE, value |-> v]

\* "\n" in name_str
_parse_event_name(name_str) ==
    IF Len(name_str) > 1 THEN Fail("Event Name should be a single line.")
    ELSE Ok(name_str[1])

_parse_event_description(desc_str) ==
    Ok(SelectSeq(desc_str, LAMBDA line : ~IsFence(line)))

_parse_location(loc_str) ==
    IF Len(loc_str) > 1 THEN Fail("Location should be a single line.")
    ELSE Ok(loc_str[1])

\* datetime.strptime(time_str, "%Y-%m-%d %H:%M:%S"): hours since 2024-11-28
StrptimeDateTime ==
    [s \in {"2024-11-30 17:00:00", "2024-11-30 21:00:00"} |->
        IF s = "2024-11-30 17:00:00" THEN 65 ELSE 69]

\* datetime.strptime(time_str, "%Y-%m-%d"): midnight of the day
StrptimeDate ==
    [s \in {"2024-11-28", "2024-11-30"} |->
        IF s = "2024-11-28" THEN 0 ELSE 48]

_parse_time(time_str) ==
    IF Len(time_str) = 1 /\ time_str[1] \in DOMAIN StrptimeDateTime
    THEN Ok([dt |-> StrptimeDateTime[time_str[1]], is_all_day |-> FALSE])
    ELSE IF Len(time_str) = 1 /\ time_str[1] \in DOMAIN StrptimeDate
    THEN Ok([dt |-> StrptimeDate[time_str[1]], is_all_day |-> TRUE])
    ELSE Fail("Could not parse time")

(***************************************************************************)
(* Event construction                                                      *)
(***************************************************************************)
EventUid(discussion_number) == <<"ghdiscussion", discussion_number>>

\* a naive datetime handed to the event is read as UTC
Naive(dt) == [utc |-> dt, tzinfo |-> "UTC"]

\* dt.replace(tzinfo=tzinfo)
ReplaceTzinfo(dt, tz) ==
    [utc |-> IF tz = "Europe/Zurich" THEN dt - ZurichUtcOffset ELSE dt,
     tzinfo |-> tz]

FloorDay(t) == [t EXCEPT !.utc = t.utc - (t.utc % 24)]

\* event.make_all_day(): whole days from the begin day to the end day
MakeAllDay(begin, end) ==
    LET begin_day == FloorDay(begin)
        end_day == FloorDay(end)
    IN [begin |-> begin_day,
        end |-> IF begin_day = end_day
                THEN [begin_day EXCEPT !.utc = @ + 24]
                ELSE [end_day EXCEPT !.utc = @ + 24]]

NewEvent(uid, name, description, location, begin, end, all_day) ==
    [uid |-> uid, name |-> name, description |-> description,
     location |-> location, begin |-> begin, end |-> end, all_day |-> all_day]

\* takes the kind of the start without looking at the end
SetTimesUnchecked(uid, name, description, location, start, end, tz) ==
    IF end.dt < start.dt
    THEN [ok |-> FALSE, error |-> "ValueError",
          message |-> "End must be after begin"]
    ELSE IF start.is_all_day
    THEN LET span == MakeAllDay(Naive(start.dt), Naive(end.dt))
         IN Ok(NewEvent(uid, name, description, location,
                        span.begin, span.end, TRUE))
    ELSE Ok(NewEvent(uid, name, description, location,
                     ReplaceTzinfo(start.dt, tz),
                     ReplaceTzinfo(end.dt, tz), FALSE))

SetTimes(uid, name, description, location, start, end, tz) ==
    IF start.is_all_day # end.is_all_day
    THEN Fail("Start and end times must both be either date-only or datetime format")
    ELSE IF start.is_all_day
    THEN IF end.dt < start.dt
         THEN [ok |-> FALSE, error |-> "ValueError",
               message |-> "End must be after begin"]
         ELSE LET span == MakeAllDay(Naive(start.dt), Naive(end.dt))
              IN Ok(NewEvent(uid, name, description, location,
                             span.begin, span.end, TRUE))
    ELSE IF end.dt < start.dt
         THEN [ok |-> FALSE, error |-> "ValueError",
               message |-> "End must be after begin"]
         ELSE Ok(NewEvent(uid, name, description, location,
                          ReplaceTzinfo(start.dt, tz),
                          ReplaceTzinfo(end.dt, tz), FALSE))

make_event_from_github_discussion_body(event_uid, b) ==
    LET fields == ParseFields(b)
        missing == FirstMissing(fields, 1)
    IN IF missing # 0
       THEN Fail(<<"Missing required field", required_fields[missing]>>)
       ELSE LET name == _parse_event_name(fields["Event Name"])
                description == _parse_event_description(fields["Event Description"])
                location == _parse_location(fields["Location"])
                start == _parse_time(fields["Start Time"])
                end == _parse_time(fields["End Time"])
            IN IF ~name.ok THEN name
               ELSE IF ~location.ok THEN location
               ELSE IF ~start.ok THEN start
               ELSE IF ~end.ok THEN end
               ELSE SetTimes(event_uid, name.value, description.value,
                             location.value, start.value, end.value,
                             timezone_ianacode)

(***************************************************************************)
(* Event equality                                                          *)
(***************************************************************************)
\* aware times compare by instant
SameInstant(t1, t2) == t1.utc = t2.utc

\* compares the times with their zones, not as instants
are_events_identical_with_zone(event1, event2) ==
    /\ event1.name = event2.name
    /\ event1.description = event2.description
    /\ event1.begin = event2.begin
    /\ event1.end = event2.end
    /\ event1.location = event2.location

are_events_identical(event1, event2) ==
    /\ event1.name = event2.name
    /\ event1.description = event2.description
    /\ SameInstant(event1.begin, event2.begin)
    /\ SameInstant(event1.end, event2.end)
    /\ event1.location = event2.location

(***************************************************************************)
(* Calendar files                                                          *)
(***************************************************************************)
\* An event as it reads back from a calendar file: times are written as UTC.
Stored(event) ==
    [event EXCEPT !.begin.tzinfo = "UTC", !.end.tzinfo = "UTC"]

NoFile == [exists |-> FALSE, events |-> {}]

\* calendar.events is a set keyed by uid: adding an event whose uid is already
\* there changes nothing
write_events_to_calendar(events) ==
    [exists |-> TRUE,
     events |-> {Stored(events[i]) : i \in
                   {k \in DOMAIN events :
                      \A j \in 1..(k - 1) : events[j].uid # events[k].uid}}]

\* every sequence that lists each element of S once
RECURSIVE Orderings(_)
Orderings(S) ==
    IF S = {} THEN {<<>>}
    ELSE UNION {{<<x>> \o rest : rest \in Orderings(S \ {x})} : x \in S}

\* list(calendar.events): the events of the file, in the order the set yields
load_events_from_calendar_file(file) ==
    IF ~file.exists THEN {<<>>} ELSE Orderings(file.events)

(***************************************************************************)
(* Bodies                                                                  *)
(***************************************************************************)
Absent == [present |-> FALSE, lines |-> <<>>]
Given(lines) == [present |-> TRUE, lines |-> lines]

Section(heading, choice) ==
    IF choice.present THEN <<heading, "">> \o choice.lines \o <<"">> ELSE <<>>

FormBody(name, description, start, end, location) ==
    Section("### Event Name", name)
    \o Section("### Event Description", description)
    \o Section("### Start Time", start)
    \o Section("### End Time", end)
    \o Section("### Location", location)

NameChoices ==
    {Absent, Given(<<>>), Given(<<"ADSV Happy Hour">>),
     Given(<<"ADSV Holiday Party">>),
     Given(<<"ADSV Happy Hour", "ADSV Holiday Party">>)}

FencedDescription ==
    Given(<<"'''text", "Join us for the ADSV happy hour.", "  ", "'''">>)

DescriptionChoices ==
    {Absent, Given(<<"Join us for the ADSV happy hour.">>), FencedDescription}

DateStrings == {"2024-11-28", "2024-11-30"}
DateTimeStrings == {"2024-11-30 17:00:00", "2024-11-30 21:00:00"}

TimeChoices ==
    {Absent, Given(<<"next Friday">>)}
    \cup {Given(<<s>>) : s \in DateStrings \cup DateTimeStrings}

LocationChoices ==
    {Absent, Given(<<"SV Lobby">>), Given(<<"SV Lobby", "BC Atrium">>)}

BodyChoices ==
    [name : NameChoices, description : DescriptionChoices,
     start : TimeChoices, end : TimeChoices, location : LocationChoices]

BodyOf(c) == FormBody(c.name, c.description, c.start, c.end, c.location)

\* the body of the test suite and its variants
discussion_body ==
    [name |-> Given(<<"ADSV Happy Hour">>),
     description |-> Given(<<"Join us for the ADSV happy hour.">>),
     start |-> Given(<<"2024-11-30 17:00:00">>),
     end |-> Given(<<"2024-11-30 21:00:00">>),
     location |-> Given(<<"SV Lobby">>)]

fullday_body ==
    [discussion_body EXCEPT !.start = Given(<<"2024-11-28">>),
                            !.end = Given(<<"2024-11-30">>)]

ValidChoices ==
    {discussion_body,
     [discussion_body EXCEPT !.description = FencedDescription],
     fullday_body}

InvalidChoices ==
    {[discussion_body EXCEPT !.location = Absent],
     [discussion_body EXCEPT !.name = Given(<<>>)],
     [discussion_body EXCEPT !.start = Given(<<"next Friday">>)],
     [discussion_body EXCEPT !.start = Given(<<"2024-11-30">>)],
     [fullday_body EXCEPT !.end = Given(<<"2024-11-30 21:00:00">>)],
     [discussion_body EXCEPT
        !.name = Given(<<"ADSV Happy Hour", "ADSV Holiday Party">>)],
     [fullday_body EXCEPT !.location = Given(<<"SV Lobby", "BC Atrium">>)]}

ValidBodies == {BodyOf(c) : c \in ValidChoices}
InvalidBodies == {BodyOf(c) : c \in InvalidChoices}
StoreBodies == ValidBodies \cup InvalidBodies
ConcurrentBodies ==
    {BodyOf(discussion_body), BodyOf(fullday_body),
     BodyOf([discussion_body EXCEPT !.location = Absent])}

(***************************************************************************)
(* Building an event from a body, on its own                               *)
(***************************************************************************)
NotBuilt == [ok |-> FALSE, error |-> "none", message |-> "none"]

\* Time Parser, range mode (issue dialect): FROM <left> TO <right>, each end
\* parsed as a single time, both of the same kind
parse_time_range(left, right) ==
    LET start == _parse_time(left)
        end == _parse_time(right)
    IN IF ~start.ok THEN start
       ELSE IF ~end.ok THEN end
       ELSE IF start.value.is_all_day # end.value.is_all_day
       THEN Fail("Range ends must both be date-only or datetime")
       ELSE Ok([start |-> start.value.dt, end |-> end.value.dt,
                is_all_day |-> start.value.is_all_day])

InitBuild ==
    /\ body \in BodyChoices
    /\ built = [form |-> NotBuilt, range |-> NotBuilt]

\* the form dialect: the whole body
Build ==
    /\ built.form = NotBuilt
    /\ built' = [built EXCEPT !.form =
                    make_event_from_github_discussion_body(EventUid(1), BodyOf(body))]
    /\ UNCHANGED body

\* the issue dialect: the two times of the body as one range
ParseRange ==
    /\ built.range = NotBuilt
    /\ body.start.present /\ body.end.present
    /\ built' = [built EXCEPT !.range =
                    parse_time_range(body.start.lines, body.end.lines)]
    /\ UNCHANGED body

(***************************************************************************)
(* The store reconciler, one invocation at a time                          *)
(***************************************************************************)
NoEvent == [uid |-> <<"none", 0>>]
NoBody == <<>>
NotLoaded == [done |-> FALSE, events |-> <<>>]
Loaded(events) == [done |-> TRUE, events |-> events]

InitStore ==
    /\ aggregate = NoFile
    /\ individual = [n \in Discussions |-> NoFile]
    /\ lastOp = [op |-> "none", number |-> 0, body |-> NoBody,
                 outcome |-> "none", result |-> FALSE, new_event |-> NoEvent,
                 wrote |-> {}, repeat |-> FALSE]
    /\ loaded = NotLoaded
    /\ all_events = <<>>

\* never finds the record
FindUidNever(events, event_uid) == 0

\* for i, event in enumerate(all_events): if event.uid == event_uid: break
FindUid(events, event_uid) ==
    LET found == {i \in DOMAIN events : events[i].uid = event_uid}
    IN IF found = {} THEN 0
       ELSE CHOOSE i \in found : \A j \in found : i <= j

\* removes the old record and puts the new one first
ReplaceAtFront(events, idx, new_event) ==
    <<new_event>> \o SelectSeq(events, LAMBDA e : e.uid # new_event.uid)

\* all_events[existing_event_idx] = new_event
ReplaceAt(events, idx, new_event) == [events EXCEPT ![idx] = new_event]

\* inserts into a copy that is thrown away
InsertIntoCopy(events, new_event) == events

\* all_events.insert(0, new_event)
InsertFront(events, new_event) == <<new_event>> \o events

Returned(op, number, b, outcome, result, new_event, wrote) ==
    [op |-> op, number |-> number, body |-> b, outcome |-> outcome,
     result |-> result, new_event |-> new_event, wrote |-> wrote,
     repeat |-> /\ op = "process"
                /\ lastOp.op = "process"
                /\ lastOp.outcome # "raised"
                /\ lastOp.number = number
                /\ lastOp.body = b]

\* the aggregate is opened for writing before the body is parsed
RaisedAfterWrite(discussion_number, b) ==
    /\ lastOp' = Returned("process", discussion_number, b, "raised",
                          FALSE, NoEvent, {"aggregate"})
    /\ loaded' = NotLoaded
    /\ all_events' = <<>>
    /\ aggregate' = write_events_to_calendar(<<>>)
    /\ UNCHANGED individual

\* the exception of make_event_from_github_discussion_body leaves
\* process_discussion at line 21
Raised(discussion_number, b) ==
    /\ lastOp' = Returned("process", discussion_number, b, "raised",
                          FALSE, NoEvent, {})
    /\ loaded' = NotLoaded
    /\ all_events' = <<>>
    /\ UNCHANGED <<aggregate, individual>>

\* make_event_from_github_discussion_body(event_uid, body) for every invocation
\* the reconciler is given here
new_event_of ==
    [n \in Discussions |->
        [b \in StoreBodies |->
            make_event_from_github_discussion_body(EventUid(n), b)]]

process_discussion(discussion_number, b) ==
    LET event_uid == EventUid(discussion_number)
        made == new_event_of[discussion_number][b]
    IN IF ~made.ok
       THEN Raised(discussion_number, b)
       ELSE \E events \in load_events_from_calendar_file(aggregate) :
            LET new_event == made.value
                existing_event_idx == FindUid(events, event_uid)
            IN /\ loaded' = Loaded(events)
               /\ IF existing_event_idx # 0
                     /\ are_events_identical(events[existing_event_idx], new_event)
                  THEN /\ lastOp' = Returned("process", discussion_number, b,
                                             "unchanged", FALSE, new_event, {})
                       /\ all_events' = events
                       /\ UNCHANGED <<aggregate, individual>>
                  ELSE LET updated ==
                               IF existing_event_idx # 0
                               THEN ReplaceAt(events, existing_event_idx, new_event)
                               ELSE InsertFront(events, new_event)
                       IN /\ all_events' = updated
                          /\ individual' =
                               [individual EXCEPT ![discussion_number] =
                                  write_events_to_calendar(<<new_event>>)]
                          /\ aggregate' = write_events_to_calendar(updated)
                          /\ lastOp' = Returned("process", discussion_number, b,
                                  IF existing_event_idx # 0 THEN "updated"
                                  ELSE "added",
                                  TRUE, new_event, {"individual", "aggregate"})

\* keeps the records it should drop
FilterUidKeepsMatch(events, event_uid) ==
    SelectSeq(events, LAMBDA e : e.uid = event_uid)

\* [e for e in all_events if e.uid != event_uid]
FilterUid(events, event_uid) == SelectSeq(events, LAMBDA e : e.uid # event_uid)

\* rewrites when nothing was filtered out as well
ShrankOrSame(filtered_events, events) == Len(filtered_events) <= Len(events)

\* never rewrites
Grew(filtered_events, events) == Len(filtered_events) > Len(events)

\* len(filtered_events) < len(all_events)
Shrank(filtered_events, events) == Len(filtered_events) < Len(events)

delete_discussion(discussion_number) ==
    LET event_uid == EventUid(discussion_number)
        unlinked == individual[discussion_number].exists
    IN /\ individual' = [individual EXCEPT ![discussion_number] = NoFile]
       /\ IF aggregate.exists
          THEN \E events \in load_events_from_calendar_file(aggregate) :
               LET filtered_events == FilterUid(events, event_uid)
                   rewrite == Shrank(filtered_events, events)
               IN /\ loaded' = Loaded(events)
                  /\ all_events' = filtered_events
                  /\ aggregate' = IF rewrite
                                  THEN write_events_to_calendar(filtered_events)
                                  ELSE aggregate
                  /\ lastOp' = Returned("delete", discussion_number, NoBody,
                          IF unlinked \/ rewrite THEN "removed" ELSE "notfound",
                          unlinked \/ rewrite, NoEvent,
                          (IF unlinked THEN {"individual"} ELSE {})
                          \cup (IF rewrite THEN {"aggregate"} ELSE {}))
          ELSE /\ loaded' = NotLoaded
               /\ all_events' = <<>>
               /\ UNCHANGED aggregate
               /\ lastOp' = Returned("delete", discussion_number, NoBody,
                       IF unlinked THEN "removed" ELSE "notfound",
                       unlinked, NoEvent,
                       IF unlinked THEN {"individual"} ELSE {})

Process ==
    /\ \E n \in Discussions, b \in StoreBodies : process_discussion(n, b)
    /\ UNCHANGED <<buildVars, concVars>>

Delete ==
    /\ \E n \in Discussions : delete_discussion(n)
    /\ UNCHANGED <<buildVars, concVars>>

(***************************************************************************)
(* Stores an invocation can find on disk                                   *)
(***************************************************************************)
\* per discussion number: no record, or the record one of the valid bodies gives
Contents == [Discussions -> ValidBodies \cup {NoBody}]

RecordsOf(c) ==
    {Stored(new_event_of[n][c[n]].value) : n \in {m \in Discussions : c[m] # NoBody}}

IndividualOf(c) ==
    [n \in Discussions |->
        IF c[n] = NoBody THEN NoFile
        ELSE write_events_to_calendar(<<new_event_of[n][c[n]].value>>)]

\* any aggregate file with any individual files: an invocation that was
\* interrupted, or that ran next to another one, leaves the two unrelated
InitAnyStore ==
    /\ aggregate \in {NoFile}
                     \cup {[exists |-> TRUE, events |-> RecordsOf(c)] : c \in Contents}
    /\ individual \in {IndividualOf(c) : c \in Contents}
    /\ lastOp = [op |-> "none", number |-> 0, body |-> NoBody,
                 outcome |-> "none", result |-> FALSE, new_event |-> NoEvent,
                 wrote |-> {}, repeat |-> FALSE]
    /\ loaded = NotLoaded
    /\ all_events = <<>>

\* the stores that invocations run one at a time leave behind, with the test
\* suite's body behind every record
InitConsistentStore ==
    /\ \E c \in [Discussions -> {BodyOf(discussion_body), NoBody}] :
          /\ aggregate \in {[exists |-> TRUE, events |-> RecordsOf(c)]}
                           \cup (IF RecordsOf(c) = {} THEN {NoFile} ELSE {})
          /\ individual = IndividualOf(c)
    /\ lastOp = [op |-> "none", number |-> 0, body |-> NoBody,
                 outcome |-> "none", result |-> FALSE, new_event |-> NoEvent,
                 wrote |-> {}, repeat |-> FALSE]
    /\ loaded = NotLoaded
    /\ all_events = <<>>

(***************************************************************************)
(* Two invocations side by side: each file access is a step of its own     *)
(***************************************************************************)
Invocations == {"first", "second"}

NoJob == [op |-> "none", number |-> 0, body |-> NoBody]
NoLocal == [all_events |-> <<>>, new_event |-> NoEvent, outcome |-> "none",
            result |-> FALSE]

InitConc ==
    /\ pc = [i \in Invocations |-> "idle"]
    /\ job = [i \in Invocations |-> NoJob]
    /\ local = [i \in Invocations |-> NoLocal]
    /\ overlapped = FALSE

UnderWay(i) == pc[i] \notin {"idle", "done"}

Step(i) ==
    overlapped' = (overlapped \/ \E j \in Invocations \ {i} : UnderWay(j))

\* no two invocations are given the same discussion number
Free(i) == {n \in Discussions : \A j \in Invocations \ {i} : job[j].number # n}

\* process_discussion, lines 20-21
StartProcess(i) ==
    /\ pc[i] = "idle"
    /\ \E n \in Free(i), b \in ConcurrentBodies :
          LET made == new_event_of[n][b]
          IN /\ job' = [job EXCEPT ![i] = [op |-> "process", number |-> n, body |-> b]]
             /\ IF made.ok
                THEN /\ local' = [local EXCEPT ![i].new_event = made.value]
                     /\ pc' = [pc EXCEPT ![i] = "load"]
                ELSE /\ local' = [local EXCEPT ![i].outcome = "raised"]
                     /\ pc' = [pc EXCEPT ![i] = "done"]
    /\ Step(i)
    /\ UNCHANGED <<storeVars, buildVars>>

\* process_discussion, lines 24-42
LoadAndMerge(i) ==
    /\ pc[i] = "load"
    /\ \E events \in load_events_from_calendar_file(aggregate) :
          LET new_event == local[i].new_event
              existing_event_idx == FindUid(events, new_event.uid)
          IN IF existing_event_idx # 0
                /\ are_events_identical(events[existing_event_idx], new_event)
             THEN /\ local' = [local EXCEPT ![i].all_events = events,
                                            ![i].outcome = "unchanged",
                                            ![i].result = FALSE]
                  /\ pc' = [pc EXCEPT ![i] = "done"]
             ELSE /\ local' = [local EXCEPT
                       ![i].all_events =
                           IF existing_event_idx # 0
                           THEN ReplaceAt(events, existing_event_idx, new_event)
                           ELSE InsertFront(events, new_event),
                       ![i].outcome =
                           IF existing_event_idx # 0 THEN "updated" ELSE "added"]
                  /\ pc' = [pc EXCEPT ![i] = "write_individual"]
    /\ Step(i)
    /\ UNCHANGED <<storeVars, buildVars, job>>

\* process_discussion, lines 45-46
WriteIndividual(i) ==
    /\ pc[i] = "write_individual"
    /\ individual' = [individual EXCEPT ![job[i].number] =
                         write_events_to_calendar(<<local[i].new_event>>)]
    /\ pc' = [pc EXCEPT ![i] = "write_aggregate"]
    /\ Step(i)
    /\ UNCHANGED <<aggregate, lastOp, loaded, all_events, buildVars, job, local>>

\* process_discussion, lines 47-49
WriteAggregate(i) ==
    /\ pc[i] = "write_aggregate"
    /\ aggregate' = write_events_to_calendar(local[i].all_events)
    /\ local' = [local EXCEPT ![i].result = TRUE]
    /\ pc' = [pc EXCEPT ![i] = "done"]
    /\ Step(i)
    /\ UNCHANGED <<individual, lastOp, loaded, all_events, buildVars, job>>

\* delete_discussion, lines 58-68
StartDelete(i) ==
    /\ pc[i] = "idle"
    /\ \E n \in Free(i) :
          /\ job' = [job EXCEPT ![i] = [op |-> "delete", number |-> n, body |-> NoBody]]
          /\ local' = [local EXCEPT ![i].result = individual[n].exists]
          /\ individual' = [individual EXCEPT ![n] = NoFile]
    /\ pc' = [pc EXCEPT ![i] = "filter"]
    /\ Step(i)
    /\ UNCHANGED <<aggregate, lastOp, loaded, all_events, buildVars>>

\* delete_discussion, lines 71-75
LoadAndFilter(i) ==
    /\ pc[i] = "filter"
    /\ IF aggregate.exists
       THEN \E events \in load_events_from_calendar_file(aggregate) :
            LET filtered_events == FilterUid(events, EventUid(job[i].number))
            IN IF Shrank(filtered_events, events)
               THEN /\ local' = [local EXCEPT ![i].all_events = filtered_events]
                    /\ pc' = [pc EXCEPT ![i] = "rewrite"]
               ELSE /\ local' = [local EXCEPT ![i].outcome =
                           IF local[i].result THEN "removed" ELSE "notfound"]
                    /\ pc' = [pc EXCEPT ![i] = "done"]
       ELSE /\ local' = [local EXCEPT ![i].outcome =
                   IF local[i].result THEN "removed" ELSE "notfound"]
            /\ pc' = [pc EXCEPT ![i] = "done"]
    /\ Step(i)
    /\ UNCHANGED <<storeVars, buildVars, job>>

\* delete_discussion, lines 76-83
Rewrite(i) ==
    /\ pc[i] = "rewrite"
    /\ aggregate' = write_events_to_calendar(local[i].all_events)
    /\ local' = [local EXCEPT ![i].result = TRUE, ![i].outcome = "removed"]
    /\ pc' = [pc EXCEPT ![i] = "done"]
    /\ Step(i)
    /\ UNCHANGED <<individual, lastOp, loaded, all_events, buildVars, job>>

(***************************************************************************)
(* Specifications                                                          *)
(***************************************************************************)
IdleBuild ==
    /\ body = discussion_body
    /\ built = [form |-> NotBuilt, range |-> NotBuilt]
IdleConc ==
    /\ pc = <<>>
    /\ job = <<>>
    /\ local = <<>>
    /\ overlapped = FALSE

\* invocations run one after the other on a store that starts empty
Init == InitStore /\ IdleBuild /\ IdleConc
Next == Process \/ Delete
Spec == Init /\ [][Next]_vars

\* one body is built into an event
InitB == InitStore /\ InitBuild /\ IdleConc
NextB == (Build \/ ParseRange) /\ UNCHANGED <<storeVars, concVars>>
SpecBuild == InitB /\ [][NextB]_vars

\* delete_discussion on whatever the store holds
InitD == InitAnyStore /\ IdleBuild /\ IdleConc
NextD == Delete
SpecDelete == InitD /\ [][NextD]_vars

\* two invocations for different discussions with no lock between them
InitC == InitConsistentStore /\ IdleBuild /\ InitConc
NextC ==
    \E i \in Invocations :
        \/ StartProcess(i)
        \/ LoadAndMerge(i)
        \/ WriteIndividual(i)
        \/ WriteAggregate(i)
        \/ StartDelete(i)
        \/ LoadAndFilter(i)
        \/ Rewrite(i)
SpecConc == InitC /\ [][NextC]_vars

(***************************************************************************)
(* Properties                                                              *)
(***************************************************************************)
\* Event Equality as the design states it: the five fields, not the identifier
EventEquality(e1, e2) ==
    /\ e1.name = e2.name
    /\ e1.description = e2.description
    /\ e1.location = e2.location
    /\ e1.begin.utc = e2.begin.utc
    /\ e1.end.utc = e2.end.utc

StoredSeq(events) == [k \in DOMAIN events |-> Stored(events[k])]

RecordsWithUid(events, uid) == {e \in events : e.uid = uid}

PositionsOf(events, uid) == {k \in DOMAIN events : events[k].uid = uid}

C2_AddedAtFrontAndLoadedSo ==
    [][/\ lastOp'.outcome = "added" =>
             /\ lastOp'.result = TRUE
             /\ all_events' = <<lastOp'.new_event>> \o loaded'.events
             /\ aggregate' = [exists |-> TRUE,
                              events |-> {Stored(all_events'[k]) :
                                             k \in DOMAIN all_events'}]
       /\ (lastOp.outcome = "added" /\ loaded'.done) =>
             loaded'.events = StoredSeq(all_events)]_vars

\* C3: an upsert under an identifier the aggregate holds, with a record that
\* is not equal to the stored one, reports "updated" (was_updated = True) and
\* replaces the record in place: same length, the new record at the old
\* position, every other record where it was.
C3_UpdateInPlace ==
    (lastOp.op = "process" /\ lastOp.outcome # "raised") =>
        \A idx \in PositionsOf(loaded.events, lastOp.new_event.uid) :
            ~EventEquality(loaded.events[idx], lastOp.new_event) =>
                /\ lastOp.outcome = "updated"
                /\ lastOp.result = TRUE
                /\ Len(all_events) = Len(loaded.events)
                /\ all_events[idx] = lastOp.new_event
                /\ \A k \in DOMAIN loaded.events :
                      k # idx => all_events[k] = loaded.events[k]
                /\ aggregate = [exists |-> TRUE,
                                events |-> {Stored(all_events[k]) :
                                               k \in DOMAIN all_events}]

C3_UpdatedInTheMiddle ==
    /\ lastOp.outcome = "updated"
    /\ Len(loaded.events) >= 3
    /\ loaded.events[2].uid = lastOp.new_event.uid

\* C4: delete_discussion for an identifier with no individual file and no
\* record in the aggregate returns False and touches neither artifact: the
\* aggregate is not rewritten, nor created, and no individual file changes.
C4_DeleteNonexistent ==
    [][(/\ lastOp'.op = "delete"
        /\ ~individual[lastOp'.number].exists
        /\ RecordsWithUid(aggregate.events, EventUid(lastOp'.number)) = {}) =>
          /\ lastOp'.result = FALSE
          /\ lastOp'.outcome = "notfound"
          /\ lastOp'.wrote = {}
          /\ aggregate' = aggregate
          /\ individual' = individual]_vars

C4_NothingToDelete ==
    /\ lastOp.op = "delete"
    /\ lastOp.result = FALSE
    /\ aggregate.exists
    /\ aggregate.events # {}

\* C5: a process_discussion that raises leaves the aggregate file and every
\* individual file as they were, having loaded and written nothing; and a body
\* with a missing or empty section, an unparsable time, start and end of
\* different kinds, or a multi-line name or location does raise.
C5_FailedParseLeavesStore ==
    [][/\ (lastOp'.op = "process" /\ lastOp'.body \in InvalidBodies) =>
             lastOp'.outcome = "raised"
       /\ lastOp'.outcome = "raised" =>
             /\ lastOp'.wrote = {}
             /\ ~loaded'.done
             /\ aggregate' = aggregate
             /\ individual' = individual]_vars

C5_RaisedOnStoredEvents ==
    /\ lastOp.outcome = "raised"
    /\ Cardinality(aggregate.events) >= 2

\* C6: from an empty store, after any sequence of upserts and deletes run one
\* at a time, no two records of the aggregate collection share an identifier,
\* in the file or in the collection the invocation handled.
C6_UniqueIdentifiers ==
    /\ \A e1, e2 \in aggregate.events : e1.uid = e2.uid => e1 = e2
    /\ \A i, j \in DOMAIN all_events :
          all_events[i].uid = all_events[j].uid => i = j
    /\ \A i, j \in DOMAIN loaded.events :
          loaded.events[i].uid = loaded.events[j].uid => i = j

C6_SeveralRecordsAfterUpdate ==
    /\ lastOp.outcome = "updated"
    /\ Cardinality(aggregate.events) >= 2

\* the kind a time section resolves to, read off the text
KindOf(choice) ==
    IF ~choice.present \/ Len(choice.lines) # 1 THEN "none"
    ELSE IF choice.lines[1] \in DateStrings THEN "date"
    ELSE IF choice.lines[1] \in DateTimeStrings THEN "datetime"
    ELSE "none"

AllRequiredPresent(c) ==
    \A f \in {c.name, c.description, c.start, c.end, c.location} :
        f.present /\ f.lines # <<>>

\* C7: with all required sections present, a build succeeds only if Start Time
\* and End Time are of the same kind; two bare dates give an all-day record
\* with no zone attached; two timed values give a record that is not all-day
\* with both ends in the configured zone; a date with a timed value, either
\* way round, fails in the form dialect and in the range of the issue dialect.
C7_AllDayInference ==
    /\ (built.form # NotBuilt /\ AllRequiredPresent(body)) =>
          /\ built.form.ok =>
                /\ KindOf(body.start) = KindOf(body.end)
                /\ KindOf(body.start) # "none"
          /\ (built.form.ok /\ KindOf(body.start) = "date") =>
                /\ built.form.value.all_day
                /\ built.form.value.begin.tzinfo # timezone_ianacode
                /\ built.form.value.end.tzinfo # timezone_ianacode
          /\ (built.form.ok /\ KindOf(body.start) = "datetime") =>
                /\ ~built.form.value.all_day
                /\ built.form.value.begin.tzinfo = timezone_ianacode
                /\ built.form.value.end.tzinfo = timezone_ianacode
          /\ {KindOf(body.start), KindOf(body.end)} = {"date", "datetime"} =>
                ~built.form.ok
    /\ built.range # NotBuilt =>
          /\ {KindOf(body.start), KindOf(body.end)} = {"date", "datetime"} =>
                ~built.range.ok
          /\ built.range.ok =>
                built.range.value.is_all_day = (KindOf(body.start) = "date")

C7_AllDayBuilt ==
    /\ AllRequiredPresent(body)
    /\ built.form.ok
    /\ built.form.value.all_day
    /\ built.range.ok

\* C8: from an empty store, after any sequence of upserts and deletes run one
\* at a time, the individual file of X exists iff the aggregate holds a record
\* of X, and that file holds one record, equal to the aggregate's record of X.
C8_ArtifactsCorrespond ==
    \A n \in Discussions :
        LET records == RecordsWithUid(aggregate.events, EventUid(n))
        IN /\ individual[n].exists <=> records # {}
           /\ individual[n].exists =>
                 /\ Cardinality(individual[n].events) = 1
                 /\ \A f \in individual[n].events :
                       /\ f.uid = EventUid(n)
                       /\ \A e \in records : EventEquality(f, e)

C8_AfterAddUpdateDelete ==
    /\ lastOp.outcome = "removed"
    /\ aggregate.events # {}
    /\ \E n \in Discussions : individual[n].exists

\* C9: whatever the store holds, after delete_discussion(X) there is no
\* individual file of X and no record of X in the aggregate, the other records
\* keep their order and the other files are untouched, and the call returns
\* True iff the individual file or the aggregate referred to X before.
C9_DeleteReconciles ==
    [][lastOp'.op = "delete" =>
          LET n == lastOp'.number
              uid == EventUid(n)
          IN /\ ~individual'[n].exists
             /\ \A m \in Discussions \ {n} : individual'[m] = individual[m]
             /\ aggregate'.exists = aggregate.exists
             /\ aggregate'.events = {e \in aggregate.events : e.uid # uid}
             /\ loaded'.done = aggregate.exists
             /\ all_events' = SelectSeq(loaded'.events, LAMBDA e : e.uid # uid)
             /\ lastOp'.result =
                   (individual[n].exists
                    \/ RecordsWithUid(aggregate.events, uid) # {})]_vars

C9_RemovedFromAggregateOnly ==
    /\ lastOp.op = "delete"
    /\ lastOp.result = TRUE
    /\ lastOp.wrote = {"aggregate"}
    /\ Len(all_events) >= 2

\* what a finished invocation must have left in the store
Effect(i) ==
    LET n == job[i].number
        uid == EventUid(n)
    IN /\ (job[i].op = "process" /\ local[i].outcome \in {"added", "updated"}) =>
             /\ local[i].result = TRUE
             /\ RecordsWithUid(aggregate.events, uid) = {Stored(local[i].new_event)}
             /\ individual[n] = [exists |-> TRUE,
                                 events |-> {Stored(local[i].new_event)}]
       /\ (job[i].op = "process" /\ local[i].outcome = "unchanged") =>
             \E e \in RecordsWithUid(aggregate.events, uid) :
                 EventEquality(e, local[i].new_event)
       /\ job[i].op = "delete" =>
             /\ RecordsWithUid(aggregate.events, uid) = {}
             /\ ~individual[n].exists

AllDone == \A i \in Invocations : pc[i] = "done"

\* C10: two invocations for different identifiers that run one after the other
\* both leave their mutation in the store; a mutation is missing at the end
\* only if the two ran side by side.
C10_SerialRunsLoseNothing ==
    (AllDone /\ ~overlapped) => \A i \in Invocations : Effect(i)

\* an upsert reported "added" and wrote its individual file, and the aggregate
\* has no record of it
C10_LostUpdate ==
    /\ AllDone
    /\ \E i \in Invocations :
          /\ job[i].op = "process"
          /\ local[i].outcome = "added"
          /\ local[i].result = TRUE
          /\ individual[job[i].number].exists
          /\ RecordsWithUid(aggregate.events, EventUid(job[i].number)) = {}

\* a delete returned True and the aggregate holds the record again
RecordRestored ==
    /\ AllDone
    /\ \E i \in Invocations :
          /\ job[i].op = "delete"
          /\ local[i].result = TRUE
          /\ RecordsWithUid(aggregate.events, EventUid(job[i].number)) # {}

====
